---- MODULE Spec2Model ----
(***************************************************************************)
(* Model of server.js: a JSON-file backed API over three documents         *)
(* (students.json, created-activities.json, activities.json).              *)
(*                                                                         *)
(* A document is the sequence of records stored in its file.  A string     *)
(* that the handlers transform (a name) is a sequence of one-character     *)
(* strings, so that trim() and toLowerCase() are computed.  An optional    *)
(* numeric request field is <<>> (undefined) or <<n>> (the number n).      *)
(* The write-only stamps createdAt, updatedAt, date and the description    *)
(* of a template are not read by any handler and are left out.             *)
(***************************************************************************)
EXTENDS Integers, Sequences, FiniteSets, TLC

VARIABLES
    students,           \* contents of STUDENTS_FILE
    createdActivities,  \* contents of CREATED_ACTIVITIES_FILE
    activities,         \* contents of ACTIVITIES_FILE
    now,                \* the value Date.now() returns
    resp,               \* the response of the last request handled in one piece
    issued,             \* history: the identifiers returned by successful creations, per type
    req                 \* per in-flight awardPoints request: position and local variables

vars == <<students, createdActivities, activities, now, resp, issued, req>>

docs == <<students, createdActivities, activities>>

-----------------------------------------------------------------------------
(* Bounds of the model *)

MaxStudents == 2

MaxTemplates == 1

MaxAwards == 2

MaxClock == 2

MaxRegistry == 3

(* Program constants *)

DefaultLimit == 5

MinPoints == 1

MaxPoints == 100

LevelStep == 100

MaxLevel == 2

-----------------------------------------------------------------------------
(* Strings *)

ToLowerChar(c) ==
    CASE c = "A" -> "a"
      [] c = "B" -> "b"
      [] c = "Q" -> "q"
      [] OTHER -> c

ToLowerCase(s) == [i \in 1..Len(s) |-> ToLowerChar(s[i])]

RECURSIVE TrimStart(_)
TrimStart(s) ==
    IF s # <<>> /\ Head(s) = " " THEN TrimStart(Tail(s)) ELSE s

RECURSIVE TrimEnd(_)
TrimEnd(s) ==
    IF s # <<>> /\ s[Len(s)] = " " THEN TrimEnd(SubSeq(s, 1, Len(s) - 1)) ELSE s

Trim(s) == TrimEnd(TrimStart(s))

(* Numbers in a request *)

Undefined == <<>>

Num(n) == <<n>>

\* !x for an optional number: undefined and 0 are falsy
Falsy(x) == x = Undefined \/ x[1] = 0

\* parseInt of a number that is an integer
ParseInt(x) == x[1]

Min(a, b) == IF a < b THEN a ELSE b

Max(a, b) == IF a > b THEN a ELSE b

\* Math.floor(a / b) for b > 0
Floor(a, b) == a \div b

\* Math.round(a / b) for b > 0: halves go up
Round(a, b) == (2 * a + b) \div (2 * b)

-----------------------------------------------------------------------------
(* Arrays *)

\* s.findIndex(r => r.id === id): the first index of a record with that id, 0 for
\* none (where the code has -1, or undefined from find)
FindIndex(s, id) ==
    IF \E i \in 1..Len(s) : s[i].id = id
    THEN CHOOSE i \in 1..Len(s) : s[i].id = id /\ \A j \in 1..(i - 1) : s[j].id # id
    ELSE 0

\* Array.prototype.slice(0, end)
Slice(s, end) ==
    LET e == IF end < 0 THEN Max(Len(s) + end, 0) ELSE Min(end, Len(s))
    IN  SubSeq(s, 1, e)

RECURSIVE SumPoints(_)
SumPoints(s) == IF s = <<>> THEN 0 ELSE Head(s).totalPoints + SumPoints(Tail(s))

-----------------------------------------------------------------------------
(* Responses *)

NoResp == [op |-> "none", status |-> 0]

\* a request not yet received: nothing read, nothing to write, no answer
Idle == [pc |-> "idle", args |-> <<>>, students |-> <<>>, createdActivities |-> <<>>,
         activities |-> <<>>, pending |-> {}, result |-> <<>>, status |-> 0]

Procs == {1, 2}

Kinds == {"student", "template", "award"}

\* the history of identifiers after a step: a 201 of a creation adds its identifier
Issue(kind, r) ==
    IF r.status # 201 THEN issued
    ELSE [issued EXCEPT ![kind] =
             @ \cup {IF kind = "award" THEN r.data.activity.id ELSE r.data.id}]

-----------------------------------------------------------------------------
(* Student registry *)

NameInputs == { <<"a">>, <<"b">>, <<>> }

PaddedNameInputs == { <<"a">>, <<"A">>, <<" ", "a">>, <<"b">>, <<>> }

TypeInputs == { "Fire", "" }

\* an id in a URL: a number, or Undefined for text that parseInt turns into NaN
IdInputs == { Undefined } \cup { Num(i) : i \in 1..MaxClock }

TotalInputs == { Undefined, Num(-150), Num(250) }

SameName(stored, name) == ToLowerCase(stored) = ToLowerCase(name)

\* POST /api/students, from the documents read to the response and the document written
CreateStudentResult(studs, name, pokemonType, t) ==
    IF name = <<>> \/ pokemonType = ""
    THEN [status |-> 400, students |-> studs]
    ELSE IF \E i \in 1..Len(studs) : SameName(studs[i].name, name)
    THEN [status |-> 409, students |-> studs]
    ELSE LET newStudent == [id |-> t, name |-> Trim(name),
                            pokemonType |-> pokemonType, totalPoints |-> 0]
         IN  [status |-> 201, students |-> Append(studs, newStudent), data |-> newStudent]

CreateStudent(name, pokemonType) ==
    LET r == CreateStudentResult(students, name, pokemonType, now)
    IN  /\ r.status = 201 => Len(students) < MaxStudents
        /\ students' = r.students
        /\ resp' = [op |-> "createStudent", status |-> r.status,
                    data |-> IF r.status = 201 THEN r.data ELSE <<>>]
        /\ UNCHANGED <<createdActivities, activities, now, req>>

\* PUT /api/students/:id; an id that parseInt turns into NaN is Undefined
UpdateStudentResult(studs, studentId, totalPoints) ==
    LET studentIndex == FindIndex(studs, ParseInt(studentId))
    IN  IF studentId = Undefined
        THEN [status |-> 400, students |-> studs]
        ELSE IF studentIndex = 0
        THEN [status |-> 404, students |-> studs]
        ELSE LET updated == IF totalPoints # Undefined
                            THEN [studs EXCEPT ![studentIndex].totalPoints = totalPoints[1]]
                            ELSE studs
             IN  [status |-> 200, students |-> updated, data |-> updated[studentIndex]]

UpdateStudent(studentId, totalPoints) ==
    LET r == UpdateStudentResult(students, studentId, totalPoints)
    IN  /\ students' = r.students
        /\ resp' = [op |-> "updateStudent", status |-> r.status,
                    data |-> IF r.status = 200 THEN r.data ELSE <<>>]
        /\ UNCHANGED <<createdActivities, activities, now, req>>

\* the filter of the two DELETE handlers
WithoutId(s, id) == SelectSeq(s, LAMBDA r : r.id # id)

\* DELETE /api/students/:id
DeleteStudentResult(studs, studentId) ==
    LET filteredStudents == WithoutId(studs, ParseInt(studentId))
    IN  IF studentId = Undefined
        THEN [status |-> 400, students |-> studs]
        ELSE IF Len(filteredStudents) = Len(studs)
        THEN [status |-> 404, students |-> studs]
        ELSE [status |-> 200, students |-> filteredStudents]

\* a variant of DeleteStudent: the student's award records are deleted as well
DeleteStudentCascading(studentId) ==
    LET r == DeleteStudentResult(students, studentId)
    IN  /\ students' = r.students
        /\ activities' = IF r.status = 200
                          THEN SelectSeq(activities, LAMBDA a : a.studentId # ParseInt(studentId))
                          ELSE activities
        /\ resp' = [op |-> "deleteStudent", status |-> r.status]
        /\ UNCHANGED <<createdActivities, now, req>>

DeleteStudent(studentId) ==
    LET r == DeleteStudentResult(students, studentId)
    IN  /\ students' = r.students
        /\ resp' = [op |-> "deleteStudent", status |-> r.status]
        /\ UNCHANGED <<createdActivities, activities, now, req>>

-----------------------------------------------------------------------------
(* Activity catalog *)

TemplateNameInputs == { <<"q">>, <<>> }

DefaultPointsInputs == { Undefined, Num(10), Num(101) }

OutOfRange(points) == points[1] < MinPoints \/ points[1] > MaxPoints

\* POST /api/created-activities
CreateActivityResult(created, name, defaultPoints, t) ==
    IF name = <<>> \/ Falsy(defaultPoints)
    THEN [status |-> 400, createdActivities |-> created]
    ELSE IF OutOfRange(defaultPoints)
    THEN [status |-> 400, createdActivities |-> created]
    ELSE IF \E i \in 1..Len(created) : SameName(created[i].name, name)
    THEN [status |-> 409, createdActivities |-> created]
    ELSE LET newActivity == [id |-> t, name |-> Trim(name),
                             defaultPoints |-> ParseInt(defaultPoints)]
         IN  [status |-> 201, createdActivities |-> Append(created, newActivity),
              data |-> newActivity]

CreateActivity(name, defaultPoints) ==
    LET r == CreateActivityResult(createdActivities, name, defaultPoints, now)
    IN  /\ r.status = 201 => Len(createdActivities) < MaxTemplates
        /\ createdActivities' = r.createdActivities
        /\ resp' = [op |-> "createActivity", status |-> r.status,
                    data |-> IF r.status = 201 THEN r.data ELSE <<>>]
        /\ UNCHANGED <<students, activities, now, req>>

\* DELETE /api/created-activities/:id
DeleteActivityResult(created, activityId) ==
    LET filteredActivities == WithoutId(created, ParseInt(activityId))
    IN  IF activityId = Undefined
        THEN [status |-> 400, createdActivities |-> created]
        ELSE IF Len(filteredActivities) = Len(created)
        THEN [status |-> 404, createdActivities |-> created]
        ELSE [status |-> 200, createdActivities |-> filteredActivities]

DeleteActivity(activityId) ==
    LET r == DeleteActivityResult(createdActivities, activityId)
    IN  /\ createdActivities' = r.createdActivities
        /\ resp' = [op |-> "deleteActivity", status |-> r.status]
        /\ UNCHANGED <<students, activities, now, req>>

-----------------------------------------------------------------------------
(* Award ledger *)

\* the bodies sent to POST /api/activities: every valid one, and one for each way
\* of failing the validation
AwardInputs ==
    { <<Num(i), Num(j), Num(p)>> : i \in 1..MaxClock, j \in 1..MaxClock, p \in {60, 100} }
    \cup { <<Undefined, Num(1), Num(60)>>, <<Num(1), Undefined, Num(60)>>,
           <<Num(1), Num(1), Undefined>>, <<Num(0), Num(1), Num(60)>>,
           <<Num(1), Num(0), Num(60)>>, <<Num(1), Num(1), Num(0)>>,
           <<Num(1), Num(1), Num(101)>>, <<Num(1), Num(1), Num(-5)>> }

\* Math.min(2, Math.floor(totalPoints / 100))
Level(totalPoints) == Min(MaxLevel, Floor(totalPoints, LevelStep))

\* a variant of AddPoints: = where the code has +=
AddPointsAssigned(totalPoints, points) == ParseInt(points)

\* students[studentIndex].totalPoints += parseInt(points)
AddPoints(totalPoints, points) == totalPoints + ParseInt(points)

\* a variant of AwardInvalid: the check of the range left out
AwardInvalidUnranged(studentId, activityId, points) ==
    Falsy(studentId) \/ Falsy(activityId) \/ Falsy(points)

\* the validation before the first read
AwardInvalid(studentId, activityId, points) ==
    \/ Falsy(studentId) \/ Falsy(activityId) \/ Falsy(points)
    \/ OutOfRange(points)

\* POST /api/activities from the three documents read to the response and the two
\* documents to write
AwardResult(studs, created, acts, studentId, activityId, points, t) ==
    LET studentIndex == FindIndex(studs, ParseInt(studentId))
        activityIndex == FindIndex(created, ParseInt(activityId))
    IN  IF studentIndex = 0
        THEN [status |-> 404, message |-> "Estudante", students |-> studs, activities |-> acts]
        ELSE IF activityIndex = 0
        THEN [status |-> 404, message |-> "Atividade", students |-> studs, activities |-> acts]
        ELSE LET oldPoints == studs[studentIndex].totalPoints
                 updated == [studs EXCEPT ![studentIndex].totalPoints = AddPoints(@, points)]
                 newActivityRecord == [id |-> t,
                                       studentId |-> ParseInt(studentId),
                                       activityId |-> ParseInt(activityId),
                                       name |-> created[activityIndex].name,
                                       points |-> ParseInt(points)]
                 oldLevel == Level(oldPoints)
                 newLevel == Level(updated[studentIndex].totalPoints)
             IN  [status |-> 201, message |-> "",
                  students |-> updated,
                  activities |-> Append(acts, newActivityRecord),
                  data |-> [activity |-> newActivityRecord,
                            student |-> updated[studentIndex],
                            evolved |-> newLevel > oldLevel,
                            newLevel |-> newLevel]]

AwardResponse(r) ==
    [op |-> "awardPoints", status |-> r.status, message |-> r.message,
     data |-> IF r.status = 201 THEN r.data ELSE <<>>]

\* the whole handler on the documents as they are now
AwardHandler(studentId, activityId, points) ==
    IF AwardInvalid(studentId, activityId, points)
    THEN [status |-> 400, message |-> "", students |-> students, activities |-> activities]
    ELSE AwardResult(students, createdActivities, activities,
                     studentId, activityId, points, now)

AwardPoints(studentId, activityId, points) ==
    LET r == AwardHandler(studentId, activityId, points)
    IN  /\ r.status = 201 => Len(activities) < MaxAwards
        /\ students' = r.students
        /\ activities' = r.activities
        /\ resp' = AwardResponse(r)
        /\ UNCHANGED <<createdActivities, now, req>>

-----------------------------------------------------------------------------
(* POST /api/activities step by step: every await of the handler lets the other    *)
(* request run.  req[p] holds the handler's position and its local variables.      *)

Answered(p, status) == [req EXCEPT ![p].pc = "done", ![p].status = status]

\* the request arrives; the validation runs before the first await
Begin(p, studentId, activityId, points) ==
    /\ req[p].pc = "idle"
    /\ req' = IF AwardInvalid(studentId, activityId, points)
              THEN Answered(p, 400)
              ELSE [req EXCEPT ![p].pc = "readStudents",
                               ![p].args = <<studentId, activityId, points>>]
    /\ UNCHANGED <<students, createdActivities, activities, now, resp>>

\* const students = await readJSONFile(STUDENTS_FILE, [])
ReadStudents(p) ==
    /\ req[p].pc = "readStudents"
    /\ req' = [req EXCEPT ![p].pc = "readCreated", ![p].students = students]
    /\ UNCHANGED <<students, createdActivities, activities, now, resp>>

\* const createdActivities = await readJSONFile(CREATED_ACTIVITIES_FILE, [])
ReadCreated(p) ==
    /\ req[p].pc = "readCreated"
    /\ req' = [req EXCEPT ![p].pc = "readActivities",
                          ![p].createdActivities = createdActivities]
    /\ UNCHANGED <<students, createdActivities, activities, now, resp>>

\* const activities = await readJSONFile(ACTIVITIES_FILE, []), and the code up to
\* Promise.all, which starts the two writes
ReadActivities(p) ==
    /\ req[p].pc = "readActivities"
    /\ LET a == req[p].args
           r == AwardResult(req[p].students, req[p].createdActivities, activities,
                            a[1], a[2], a[3], now)
       IN  /\ r.status = 201 => Len(activities) < MaxAwards
           /\ req' = IF r.status = 201
                     THEN [req EXCEPT ![p].pc = "writing", ![p].activities = activities,
                                      ![p].pending = {"students", "activities"},
                                      ![p].result = r]
                     ELSE [Answered(p, r.status) EXCEPT ![p].activities = activities]
    /\ UNCHANGED <<students, createdActivities, activities, now, resp>>

\* after a write: the answer goes out once both writes are done
Written(p, file) ==
    [req EXCEPT ![p].pending = @ \ {file},
                ![p].pc = IF req[p].pending = {file} THEN "done" ELSE @,
                ![p].status = IF req[p].pending = {file} THEN 201 ELSE @]

\* a variant of WriteStudents: the points are added to the registry as it is on file
\* at the time of the write
WriteStudentsMerging(p) ==
    /\ req[p].pc = "writing" /\ "students" \in req[p].pending
    /\ LET k == FindIndex(students, ParseInt(req[p].args[1]))
       IN  students' = [students EXCEPT ![k].totalPoints = AddPoints(@, req[p].args[3])]
    /\ req' = Written(p, "students")
    /\ UNCHANGED <<createdActivities, activities, now, resp>>

\* writeJSONFile(STUDENTS_FILE, students) completes
WriteStudents(p) ==
    /\ req[p].pc = "writing" /\ "students" \in req[p].pending
    /\ students' = req[p].result.students
    /\ req' = Written(p, "students")
    /\ UNCHANGED <<createdActivities, activities, now, resp>>

\* writeJSONFile(ACTIVITIES_FILE, activities) completes
WriteActivities(p) ==
    /\ req[p].pc = "writing" /\ "activities" \in req[p].pending
    /\ activities' = req[p].result.activities
    /\ req' = Written(p, "activities")
    /\ UNCHANGED <<students, createdActivities, now, resp>>

-----------------------------------------------------------------------------
(* Aggregation queries *)

CategoryInputs == { "", "all", "Fire", "Water" }

LimitInputs == { Undefined, Num(-1), Num(0), Num(1), Num(2) }

\* a variant of KeepsOrder: the comparator (a, b) => a.totalPoints - b.totalPoints
KeepsOrderAscending(a, b) == a.totalPoints - b.totalPoints <= 0

\* the comparator (a, b) => b.totalPoints - a.totalPoints leaves a before b
KeepsOrder(a, b) == b.totalPoints - a.totalPoints <= 0

RECURSIVE Insert(_, _)
Insert(sorted, x) ==
    IF sorted = <<>> THEN <<x>>
    ELSE IF KeepsOrder(Head(sorted), x)
    THEN <<Head(sorted)>> \o Insert(Tail(sorted), x)
    ELSE <<x>> \o sorted

\* Array.prototype.sort with that comparator: a stable sort
RECURSIVE Sort(_)
Sort(s) == IF s = <<>> THEN <<>> ELSE Insert(Sort(SubSeq(s, 1, Len(s) - 1)), s[Len(s)])

\* if (pokemon && pokemon !== 'all') students.filter(...)
FilterByType(studs, pokemon) ==
    IF pokemon # "" /\ pokemon # "all"
    THEN SelectSeq(studs, LAMBDA s : s.pokemonType = pokemon)
    ELSE studs

\* GET /api/ranking?pokemon=&limit=
RankingResult(studs, pokemon, limit) ==
    LET filteredStudents == FilterByType(studs, pokemon)
        n == IF limit = Undefined THEN DefaultLimit ELSE ParseInt(limit)
    IN  [data |-> Slice(Sort(filteredStudents), n), total |-> Len(filteredStudents)]

Ranking(pokemon, limit) ==
    LET r == RankingResult(students, pokemon, limit)
    IN  /\ resp' = [op |-> "ranking", status |-> 200, data |-> r.data, total |-> r.total]
        /\ UNCHANGED <<students, createdActivities, activities, now, req>>

\* the reduce that counts the students per pokemonType
PokemonCount(studs) ==
    [k \in { studs[i].pokemonType : i \in 1..Len(studs) } |->
        Cardinality({ i \in 1..Len(studs) : studs[i].pokemonType = k })]

\* the reduce that counts the students per level
EvolutionLevels(studs) ==
    [k \in { Level(studs[i].totalPoints) : i \in 1..Len(studs) } |->
        Cardinality({ i \in 1..Len(studs) : Level(studs[i].totalPoints) = k })]

\* GET /api/stats
StatsResult(studs, acts, created) ==
    LET totalPoints == SumPoints(studs)
    IN  [totalStudents |-> Len(studs),
         totalActivities |-> Len(created),
         totalActivitiesAssigned |-> Len(acts),
         totalPoints |-> totalPoints,
         averagePoints |-> IF Len(studs) > 0 THEN Round(totalPoints, Len(studs)) ELSE 0,
         pokemonDistribution |-> PokemonCount(studs),
         evolutionDistribution |-> EvolutionLevels(studs)]

Stats ==
    /\ resp' = [op |-> "stats", status |-> 200,
                data |-> StatsResult(students, activities, createdActivities)]
    /\ UNCHANGED <<students, createdActivities, activities, now, req>>

-----------------------------------------------------------------------------
(* The clock *)

Tick ==
    /\ now < MaxClock
    /\ now' = now + 1
    /\ UNCHANGED <<students, createdActivities, activities, resp, req>>

-----------------------------------------------------------------------------

Init ==
    /\ students = <<>>
    /\ createdActivities = <<>>
    /\ activities = <<>>
    /\ now = 1
    /\ resp = NoResp
    /\ issued = [k \in Kinds |-> {}]
    /\ req = [p \in Procs |-> Idle]

Next ==
    \/ Tick /\ UNCHANGED issued
    \/ \E name \in NameInputs, pokemonType \in TypeInputs :
            CreateStudent(name, pokemonType) /\ UNCHANGED issued
    \/ \E id \in IdInputs, totalPoints \in TotalInputs :
            UpdateStudent(id, totalPoints) /\ UNCHANGED issued
    \/ \E id \in IdInputs : DeleteStudent(id) /\ UNCHANGED issued
    \/ \E name \in TemplateNameInputs, defaultPoints \in DefaultPointsInputs :
            CreateActivity(name, defaultPoints) /\ UNCHANGED issued
    \/ \E id \in IdInputs : DeleteActivity(id) /\ UNCHANGED issued
    \/ \E a \in AwardInputs : AwardPoints(a[1], a[2], a[3]) /\ UNCHANGED issued

Spec == Init /\ [][Next]_vars

\* The creations and deletions again, with names that differ in case and padding, and
\* with the history of the identifiers that creations have returned.
NextIds ==
    \/ Tick /\ UNCHANGED issued
    \/ \E name \in PaddedNameInputs, pokemonType \in TypeInputs :
            CreateStudent(name, pokemonType) /\ issued' = Issue("student", resp')
    \/ \E id \in IdInputs : DeleteStudent(id) /\ UNCHANGED issued
    \/ \E name \in TemplateNameInputs, defaultPoints \in DefaultPointsInputs :
            CreateActivity(name, defaultPoints) /\ issued' = Issue("template", resp')
    \/ \E id \in IdInputs : DeleteActivity(id) /\ UNCHANGED issued
    \/ \E a \in AwardInputs :
            AwardPoints(a[1], a[2], a[3]) /\ issued' = Issue("award", resp')

SpecIds == Init /\ [][NextIds]_vars

\* The operations one after another, where PUT /api/students/:id never carries a
\* totalPoints: the registry's totals come from creations and awards alone.
NextLedger ==
    \/ Tick /\ UNCHANGED issued
    \/ \E name \in NameInputs, pokemonType \in TypeInputs :
            CreateStudent(name, pokemonType) /\ UNCHANGED issued
    \/ \E id \in IdInputs : UpdateStudent(id, Undefined) /\ UNCHANGED issued
    \/ \E id \in IdInputs : DeleteStudent(id) /\ UNCHANGED issued
    \/ \E name \in TemplateNameInputs, defaultPoints \in DefaultPointsInputs :
            CreateActivity(name, defaultPoints) /\ UNCHANGED issued
    \/ \E id \in IdInputs : DeleteActivity(id) /\ UNCHANGED issued
    \/ \E a \in AwardInputs : AwardPoints(a[1], a[2], a[3]) /\ UNCHANGED issued

SpecLedger == Init /\ [][NextLedger]_vars

\* The queries, on registries of up to MaxRegistry students created one per
\* millisecond, whose totals updates then set; the catalog and the ledger are empty,
\* or hold one template and two awards of it to the first student.
QueryTypes == { "Fire", "Water" }

QueryTotals == { Num(-150), Num(250) }

QueryName(i) == [j \in 1..i |-> "a"]

QueryTemplate == [id |-> 1, name |-> <<"q">>, defaultPoints |-> 10]

QueryAward(i) == [id |-> i, studentId |-> 1, activityId |-> 1, name |-> <<"q">>, points |-> 60]

InitQuery ==
    /\ \E n \in 0..MaxRegistry : \E type \in [1..n -> QueryTypes] :
          students = [i \in 1..n |-> [id |-> i, name |-> QueryName(i),
                                      pokemonType |-> type[i], totalPoints |-> 0]]
    /\ \/ createdActivities = <<>> /\ activities = <<>>
       \/ createdActivities = <<QueryTemplate>> /\ activities = <<QueryAward(2), QueryAward(3)>>
    /\ now = MaxRegistry + 1
    /\ resp = NoResp
    /\ issued = [k \in Kinds |-> {}]
    /\ req = [p \in Procs |-> Idle]

NextQuery ==
    \/ \E i \in 1..MaxRegistry, totalPoints \in QueryTotals :
            UpdateStudent(Num(i), totalPoints) /\ UNCHANGED issued
    \/ \E pokemon \in CategoryInputs, limit \in LimitInputs :
            Ranking(pokemon, limit) /\ UNCHANGED issued
    \/ Stats /\ UNCHANGED issued

SpecQuery == InitQuery /\ [][NextQuery]_vars

\* Two POST /api/activities requests in flight at once, on a registry of one student
\* and a catalog of one template.
RaceTotals == { 0, 150 }

RaceInputs ==
    { <<Num(1), Num(1), Num(60)>>, <<Num(1), Num(1), Num(100)>>,
      <<Num(2), Num(1), Num(60)>>, <<Num(1), Num(2), Num(60)>>,
      <<Num(1), Num(1), Num(0)>> }

InitRace ==
    /\ \E o \in RaceTotals :
          students = <<[id |-> 1, name |-> <<"a">>, pokemonType |-> "Fire",
                        totalPoints |-> o]>>
    /\ createdActivities = <<QueryTemplate>>
    /\ activities = <<>>
    /\ now = 1
    /\ resp = NoResp
    /\ issued = [k \in Kinds |-> {}]
    /\ req = [p \in Procs |-> Idle]

NextRace ==
    \/ Tick /\ UNCHANGED issued
    \/ \E p \in Procs, a \in RaceInputs : Begin(p, a[1], a[2], a[3]) /\ UNCHANGED issued
    \/ \E p \in Procs : ReadStudents(p) /\ UNCHANGED issued
    \/ \E p \in Procs : ReadCreated(p) /\ UNCHANGED issued
    \/ \E p \in Procs : ReadActivities(p) /\ UNCHANGED issued
    \/ \E p \in Procs : WriteStudents(p) /\ UNCHANGED issued
    \/ \E p \in Procs : WriteActivities(p) /\ UNCHANGED issued

SpecRace == InitRace /\ [][NextRace]_vars

-----------------------------------------------------------------------------
(* Properties of the sequential specification *)

IsPrefix(s, t) == Len(s) <= Len(t) /\ SubSeq(t, 1, Len(s)) = s

Range(s) == { s[i] : i \in 1..Len(s) }

\* the record a request for studentId resolves to: students.findIndex(...)
Resolved(studentId) == FindIndex(students, studentId[1])

KnownStudent(studentId) == \E i \in 1..Len(students) : students[i].id = studentId[1]

KnownTemplate(activityId) ==
    \E i \in 1..Len(createdActivities) : createdActivities[i].id = activityId[1]

\* a step that handles one request in one piece: the clock stands, something changes
RequestStep(op) == now' = now /\ resp'.op = op

AwardSucceeds == RequestStep("awardPoints") /\ resp'.status = 201

C2_LevelAndEvolved ==
    [][ AwardSucceeds =>
            LET award == resp'.data.activity
                o == students[Resolved(Num(award.studentId))].totalPoints
                p == award.points
                new == Min(2, (o + p) \div 100)
                old == Min(2, o \div 100)
            IN  /\ resp'.data.newLevel = new
                /\ resp'.data.evolved = (new > old)
                /\ o >= 200 => ~resp'.data.evolved
                /\ resp'.data.newLevel \in {0, 1, 2}
      ]_vars

\* what C7 calls a missing field, and points outside [1,100]
Missing(x) == x = Undefined

C7_Invalid(a) == Missing(a[1]) \/ Missing(a[2]) \/ Missing(a[3]) \/ a[3][1] < 1 \/ a[3][1] > 100

\* a field the validation rejects: missing, or the number 0
C7_Rejected(a) == C7_Invalid(a) \/ a[1][1] = 0 \/ a[2][1] = 0

\* the outcome of POST /api/activities with body a on the documents as they are, and
\* what the amended C7 says of it
C7_Outcome(a) ==
    LET r == AwardHandler(a[1], a[2], a[3])
    IN  /\ C7_Rejected(a) => r.status = 400
        /\ ~C7_Rejected(a) /\ ~KnownStudent(a[1]) =>
              r.status = 404 /\ r.message = "Estudante"
        /\ ~C7_Rejected(a) /\ KnownStudent(a[1]) /\ ~KnownTemplate(a[2]) =>
              r.status = 404 /\ r.message = "Atividade"
        /\ ~C7_Rejected(a) /\ KnownStudent(a[1]) /\ KnownTemplate(a[2]) => r.status = 201
        /\ r.status \in {400, 404} => r.students = students /\ r.activities = activities

C7_ErrorsChangeNothing ==
    RequestStep("awardPoints") /\ resp'.status \in {400, 404} => UNCHANGED docs

\* C7 as stated: 400 when a field is missing or points is outside [1,100]; otherwise
\* 404 for an unknown student, and 404 for an unknown template only when the student
\* exists; no document changes in any of these outcomes.
C7_AwardErrors ==
    [][ \A a \in AwardInputs : AwardPoints(a[1], a[2], a[3]) =>
            /\ C7_Invalid(a) => resp'.status = 400
            /\ ~C7_Invalid(a) /\ ~KnownStudent(a[1]) =>
                   resp'.status = 404 /\ resp'.message = "Estudante"
            /\ ~C7_Invalid(a) /\ KnownStudent(a[1]) /\ ~KnownTemplate(a[2]) =>
                   resp'.status = 404 /\ resp'.message = "Atividade"
            /\ resp'.status \in {400, 404} => UNCHANGED docs
      ]_vars

\* C7 amended: as C7, with an id of 0 counted as missing (400, not 404); and the
\* request succeeds only when none of the error cases applies.
C7_AwardErrorsAmended ==
    /\ [](\A a \in AwardInputs : C7_Outcome(a))
    /\ [][C7_ErrorsChangeNothing]_vars

\* C7 witness: with a student and an award on file, a request naming that student
\* and a template that is not in the catalog was answered 404 for the template
C7_Witness ==
    /\ resp.op = "awardPoints" /\ resp.status = 404 /\ resp.message = "Atividade"
    /\ students # <<>> /\ activities # <<>> /\ createdActivities = <<>>

\* C10: in every step the ledger before it is a prefix of the ledger after it; it
\* grows only in a successful award, by one record at the end; deleting a student or
\* a template and updating a student leave it as it is.
C10_LedgerAppendOnly ==
    [][ /\ IsPrefix(activities, activities')
        /\ activities' # activities =>
              /\ AwardSucceeds
              /\ activities' = Append(activities, resp'.data.activity)
        /\ AwardSucceeds => Len(activities') = Len(activities) + 1
        /\ RequestStep("deleteStudent") \/ RequestStep("deleteActivity")
              \/ RequestStep("updateStudent") => activities' = activities
      ]_vars

\* C10 witness: a student was just deleted while the ledger holds a record of that
\* student, and the record is still there
C10_Witness ==
    /\ resp.op = "deleteStudent" /\ resp.status = 200
    /\ students = <<>>
    /\ activities # <<>>
    /\ \A i \in 1..Len(activities) : ~KnownStudent(Num(activities[i].studentId))

-----------------------------------------------------------------------------
(* Properties of the registry and of identifiers *)

NoTwoNamesAlike ==
    \A i, j \in 1..Len(students) :
        i # j => ToLowerCase(students[i].name) # ToLowerCase(students[j].name)

\* C3: createStudent with a name that, once trimmed, equals a stored name but for
\* case is answered 409 and changes nothing; and so no two students of the registry
\* ever have names that are equal but for case.
C3_DuplicateNameConflict ==
    [][ /\ \A name \in PaddedNameInputs \ {<<>>}, pokemonType \in TypeInputs \ {""} :
              /\ CreateStudent(name, pokemonType)
              /\ \E i \in 1..Len(students) :
                    ToLowerCase(students[i].name) = ToLowerCase(Trim(name))
              => resp'.status = 409 /\ students' = students
        /\ NoTwoNamesAlike'
      ]_vars

\* C4: the identifier a successful creation returns differs from every identifier
\* that an earlier successful creation of the same type returned.
C4_FreshIdentifiers ==
    [][ /\ RequestStep("createStudent") /\ resp'.status = 201 =>
              resp'.data.id \notin issued["student"]
        /\ RequestStep("createActivity") /\ resp'.status = 201 =>
              resp'.data.id \notin issued["template"]
        /\ RequestStep("awardPoints") /\ resp'.status = 201 =>
              resp'.data.activity.id \notin issued["award"]
      ]_vars

\* doc without its i-th record
RemoveAt(doc, i) == SubSeq(doc, 1, i - 1) \o SubSeq(doc, i + 1, Len(doc))

\* what C5 says of a DELETE of id on a document: 404 and no change when no record
\* has the id, else one record fewer, the others unmodified and in order
C5_Deleted(doc, after, id, status) ==
    IF \A i \in 1..Len(doc) : doc[i].id # id
    THEN status = 404 /\ after = doc
    ELSE /\ Len(after) = Len(doc) - 1
         /\ \E i \in 1..Len(doc) : doc[i].id = id /\ after = RemoveAt(doc, i)

\* C5: deleteStudent and deleteActivity answer 404 and change nothing when no record
\* has the id; otherwise exactly one record goes and the others stay, unmodified, in
\* their order.
C5_DeleteRemovesOne ==
    [][ \A id \in IdInputs \ {Undefined} :
          /\ DeleteStudent(id) => C5_Deleted(students, students', id[1], resp'.status)
          /\ DeleteActivity(id) =>
                C5_Deleted(createdActivities, createdActivities', id[1], resp'.status)
      ]_vars

-----------------------------------------------------------------------------
(* Properties of the queries *)

Count(x, s) == Cardinality({ i \in 1..Len(s) : s[i] = x })

OfCategory(c) == SelectSeq(students, LAMBDA s : s.pokemonType = c)

\* what C6 says of the answer r to ranking(c, n)
C6_Says(c, n, r) ==
    LET ofC == OfCategory(c)
    IN  /\ Len(r.data) <= n
        /\ \A i \in 1..Len(r.data) : r.data[i].pokemonType = c
        /\ \A i, j \in 1..Len(r.data) :
              i < j => r.data[i].totalPoints >= r.data[j].totalPoints
        /\ Len(r.data) = Min(n, Len(ofC))
        /\ \A x \in Range(r.data) : Count(x, r.data) <= Count(x, ofC)
        /\ \A x \in Range(ofC) : Count(x, r.data) < Count(x, ofC) =>
              \A y \in Range(r.data) : y.totalPoints >= x.totalPoints
        /\ r.total = Len(ofC)

\* C6: for every category value c and limit n >= 0, ranking(c, n) returns at most n
\* students, all of category c, by totalPoints non-increasing, that are the n
\* highest-scoring students of category c; total is the number of students of
\* category c.
C6_RankingOfCategory ==
    [][ \A c \in CategoryInputs \ {""}, n \in 0..2 :
            Ranking(c, Num(n)) => C6_Says(c, n, resp')
      ]_vars

\* C6 amended: the same for every category value other than "all", which the
\* handler reads as "no filter".
C6_RankingOfCategoryAmended ==
    \A c \in CategoryInputs \ {"", "all"}, n \in 0..(MaxRegistry + 1) :
        C6_Says(c, n, RankingResult(students, c, Num(n)))

\* C6 witness: a ranking of one category was cut to fewer students than the category
\* has, while the registry holds a student of another category with more points than
\* every student returned
C6_Witness ==
    /\ resp.op = "ranking"
    /\ 0 < Len(resp.data) /\ Len(resp.data) < resp.total
    /\ \E i \in 1..Len(students) :
          /\ students[i].pokemonType # resp.data[1].pokemonType
          /\ students[i].totalPoints > resp.data[1].totalPoints
    /\ resp.total = Len(OfCategory(resp.data[1].pokemonType))
    /\ resp.total < Len(students)

CountAt(f, k) == IF k \in DOMAIN f THEN f[k] ELSE 0

Abs(x) == IF x < 0 THEN -x ELSE x

\* what C8 says of the answer d to stats()
C8_Says(d) ==
    LET n == Len(students)
        AtLevel(L) == { i \in 1..n : Min(2, students[i].totalPoints \div 100) = L }
    IN  /\ d.totalStudents = n
        /\ d.totalActivities = Len(createdActivities)
        /\ d.totalActivitiesAssigned = Len(activities)
        /\ d.totalPoints = SumPoints(students)
        /\ IF n = 0 THEN d.averagePoints = 0
           ELSE 2 * Abs(d.averagePoints * n - d.totalPoints) <= n
        /\ \A L \in {0, 1, 2} : CountAt(d.evolutionDistribution, L) = Cardinality(AtLevel(L))
        /\ CountAt(d.evolutionDistribution, 0) + CountAt(d.evolutionDistribution, 1)
              + CountAt(d.evolutionDistribution, 2) = d.totalStudents
        /\ n = 0 => DOMAIN d.evolutionDistribution = {} /\ DOMAIN d.pokemonDistribution = {}

\* C8: stats() returns the counts of the three documents, the sum of the students'
\* totalPoints, its average rounded to the nearest integer (0 with no students), and
\* a level distribution that counts, for each level 0, 1, 2, the students at that
\* level, the three counts adding up to totalStudents; on an empty registry both
\* distributions are empty.
C8_Stats == resp.op = "stats" => C8_Says(resp.data)

-----------------------------------------------------------------------------
(* Properties of two requests in flight *)

Succeeded(p) == req[p].pc = "done" /\ req[p].status = 201

\* p and q both loaded the registry before either saved it: they read the same
\* registry, which a save in between would have changed
BothLoadedFirst(p, q) == req[p].students = req[q].students

\* C9: when two awards for one student have both succeeded after both loading the
\* registry before either saved it, the registry on file is the document of one of
\* them, the one that wrote last, and the student's total holds that one's points
\* only; when they also both loaded the ledger before either saved it, the ledger
\* on file is the last writer's too and holds one of the two records.
C9_LastWriterWins ==
    \A p, q \in Procs :
        /\ p # q /\ Succeeded(p) /\ Succeeded(q)
        /\ req[p].args[1] = req[q].args[1]
        /\ BothLoadedFirst(p, q)
        => LET k == FindIndex(req[p].students, req[p].args[1][1])
               o == req[p].students[k].totalPoints
           IN  /\ students \in {req[p].result.students, req[q].result.students}
               /\ students[k].totalPoints \in {o + req[p].args[3][1], o + req[q].args[3][1]}
               /\ students[k].totalPoints # o + req[p].args[3][1] + req[q].args[3][1]
               /\ req[p].activities = req[q].activities =>
                     /\ activities \in {req[p].result.activities, req[q].result.activities}
                     /\ Len(activities) = Len(req[p].activities) + 1

\* C9 witness: both requests were answered 201, one with 60 points and one with 100,
\* and the student's total on file went up by 100 only, with one record in the ledger
C9_Witness ==
    /\ Succeeded(1) /\ Succeeded(2)
    /\ BothLoadedFirst(1, 2)
    /\ req[1].args = <<Num(1), Num(1), Num(60)>>
    /\ req[2].args = <<Num(1), Num(1), Num(100)>>
    /\ students = req[2].result.students
    /\ students[1].totalPoints = req[1].students[1].totalPoints + 100
    /\ Len(activities) = 1 /\ activities[1].points = 100

-----------------------------------------------------------------------------
(* Properties across the registry and the ledger *)

\* the sum of the points of the ledger records of a student id
RECURSIVE Awarded(_, _)
Awarded(ledger, id) ==
    IF ledger = <<>> THEN 0
    ELSE (IF Head(ledger).studentId = id THEN Head(ledger).points ELSE 0)
            + Awarded(Tail(ledger), id)

Consistent(studs, ledger) ==
    \A i \in 1..Len(studs) : studs[i].totalPoints = Awarded(ledger, studs[i].id)

\* C11: when no update supplies totalPoints, after every completed operation each
\* student of the registry has totalPoints equal to the sum of the points of the
\* ledger records whose studentId is the student's id; and an awardPoints request
\* changes the registry and the ledger together (a successful one increments a total
\* and appends one record) or neither of them.
C11_CrossDocumentConsistency ==
    [][ /\ Consistent(students', activities')
        /\ RequestStep("awardPoints") =>
              /\ (students' # students) = (activities' # activities)
              /\ (resp'.status = 201) = (activities' # activities)
              /\ resp'.status = 201 => Len(activities') = Len(activities) + 1
      ]_vars

====
